---- MODULE Spec2Model ----
(***************************************************************************)
(* Recurrence-to-task materialisation engine of regular-api.               *)
(*                                                                         *)
(* The repository carries the task controller in three variants that all   *)
(* write the same kind of task rows; a deployment runs one of them         *)
(* (variable backend):                                                     *)
(*   - src/controllers/tasks.js 1-515    (Supabase, first version)         *)
(*   - src/controllers/tasks.js 516-918  (Mongo: checkDate,                *)
(*                                        manageFutureTasks)               *)
(*   - src/unnamed/part_009 311-962      (Supabase, with sticky tasks and  *)
(*                                        updateTask)                      *)
(* Dates are calendar days of 2024 numbered 1..366 (1 = Mon 1 Jan 2024);   *)
(* the server clock is taken to run in UTC, so that new Date(day) and the  *)
(* local getDay()/getDate()/getMonth() speak of the same calendar day.     *)
(* Store calls are taken to succeed (the error branches of the handlers    *)
(* are not entered).                                                       *)
(***************************************************************************)
EXTENDS Integers, Sequences, FiniteSets, TLC

VARIABLES
    backend,        \* which variant of the controllers this deployment runs
    tasks,          \* the task rows: a bag (row -> number of copies) of records
    activities,     \* activity id -> [program, cron, isDeleted]
    subscriptions,  \* set of <<user, program>>
    last,           \* the last request: for populateUserTasks its user, day and count
    userDeleted,    \* history: the (user, activity, dueDate) last removed by deleteTask
    requests,       \* the populateUserTasks requests in flight: position and locals
    cronExpr,       \* recurrence evaluator: the expression under test
    cronDate,       \* recurrence evaluator: the date under test
    cronResult,     \* recurrence evaluator: which test ran and what it returned
    deletedPrograms,    \* the programs marked deleted by deleteProgram
    accounts,       \* registration: the progress of register, the programs rows,
                    \* their subscriptions, the getPersonalProgram requests in flight
    zone            \* the time zone of the server: "utc" or "west" of it

vars == <<backend, tasks, activities, subscriptions, last, userDeleted, requests,
          cronExpr, cronDate, cronResult,
          deletedPrograms,
          accounts,
          zone>>

storeVars == <<backend, tasks, activities, subscriptions>>
obsVars == <<last, userDeleted>>
cronVars == <<cronExpr, cronDate, cronResult>>

(***************************************************************************)
(* Calendar                                                                *)
(***************************************************************************)

\* number of days of 2024 before month m (m = 13: the whole year)
DaysBefore == <<0, 31, 60, 91, 121, 152, 182, 213, 244, 274, 305, 335, 366>>

\* date.getMonth() + 1
Month(d) == CHOOSE m \in 1..12 : DaysBefore[m] < d /\ d <= DaysBefore[m + 1]

\* date.getDate()
DayOfMonth(d) == d - DaysBefore[Month(d)]

\* date.getDay(): 0 = Sunday .. 6 = Saturday
DayOfWeek(d) == d % 7

(***************************************************************************)
(* Recurrence rules.  A cron expression "m h dom mon dow" is kept as its   *)
(* three date fields; a field is the wildcard or a comma list of numbers.  *)
(***************************************************************************)

\* a field: the wildcard "*" or a comma list of numbers
Wild == [wild |-> TRUE, list |-> {}]
List(S) == [wild |-> FALSE, list |-> S]

\* parseInt of a part that is not a number
NaN == -1

\* a field whose text is not a number, as in "0 12 x * *"
NonNumeric == [wild |-> FALSE, list |-> {NaN}]

\* a well-formed expression: five parts
Cron(dom, mon, dow) == [dom |-> dom, mon |-> mon, dow |-> dow, parts |-> 5]

\* activity.cron is null, undefined or the empty string
Missing == [dom |-> Wild, mon |-> Wild, dow |-> Wild, parts |-> 0]

\* an expression of four parts "h dom mon dow", or of seven parts
\* "s m h dom mon dow y"
Parts(n, dom, mon, dow) == [dom |-> dom, mon |-> mon, dow |-> dow, parts |-> n]

\* cronParser.parseExpression(expression) returns: the expression has at
\* most six parts (missing leading parts take their defaults) and every
\* part is a wildcard or numbers; otherwise it throws
Parses(expression) ==
    /\ expression.parts \in 1..6
    /\ NaN \notin expression.dom.list \cup expression.mon.list \cup expression.dow.list

\* expression.split(' ')[i] for i = 2 and i = 4: the third and the fifth
\* part of the text; a text of four parts has the month third and no fifth
SplitAt(expression, i) ==
    IF expression.parts = 5
    THEN (IF i = 2 THEN expression.dom ELSE expression.dow)
    ELSE IF expression.parts = 4
    THEN (IF i = 2 THEN expression.mon ELSE List({}))
    ELSE List({})

\* cronParser.parseExpression(expression).fields: a wildcard expands to the
\* whole range of the field, a list to its members
ParseField(f, lo, hi) == IF f = Wild THEN lo..hi ELSE f.list

\* checkDate with the both-wildcard rule returning false
checkDate_noWild(expression, date) ==
    LET data == [month      |-> ParseField(expression.mon, 1, 12),
                 dayOfMonth |-> ParseField(expression.dom, 1, 31),
                 dayOfWeek  |-> ParseField(expression.dow, 0, 7)]
        isDayOfMonthWildcard == SplitAt(expression, 2) = Wild
        isDayOfWeekWildcard  == SplitAt(expression, 4) = Wild
    IN  IF ~Parses(expression) THEN FALSE
        ELSE IF Month(date) \notin data.month THEN FALSE
        ELSE IF ~isDayOfMonthWildcard /\ DayOfMonth(date) \in data.dayOfMonth THEN TRUE
        ELSE IF ~isDayOfWeekWildcard /\ DayOfWeek(date) \in data.dayOfWeek THEN TRUE
        ELSE FALSE

\* checkDate(expression, date) of the Mongo controller
checkDate(expression, date) ==
    LET data == [month      |-> ParseField(expression.mon, 1, 12),
                 dayOfMonth |-> ParseField(expression.dom, 1, 31),
                 dayOfWeek  |-> ParseField(expression.dow, 0, 7)]
        isDayOfMonthWildcard == SplitAt(expression, 2) = Wild
        isDayOfWeekWildcard  == SplitAt(expression, 4) = Wild
    IN  \* an exception of the parser is caught: false
        IF ~Parses(expression) THEN FALSE
        ELSE IF Month(date) \notin data.month THEN FALSE
        ELSE IF ~isDayOfMonthWildcard /\ DayOfMonth(date) \in data.dayOfMonth THEN TRUE
        ELSE IF ~isDayOfWeekWildcard /\ DayOfWeek(date) \in data.dayOfWeek THEN TRUE
        ELSE IF isDayOfMonthWildcard /\ isDayOfWeekWildcard THEN TRUE
        ELSE FALSE

\* the scheduledActivities filter of the two Supabase populateUserTasks:
\* only the fifth field (day of week) of the expression is looked at
isScheduled(expression, date) ==
    LET dayOfWeek == DayOfWeek(date)
        dayPart   == expression.dow
    IN  \* if (!activity.cron) return false
        IF expression.parts = 0 THEN FALSE
        \* if (cronParts.length !== 5) return false
        ELSE IF expression.parts # 5 THEN FALSE
        ELSE IF dayPart = Wild THEN TRUE
        ELSE dayOfWeek \in dayPart.list

(***************************************************************************)
(* Recurrence evaluator on its own: an expression and a date are drawn,    *)
(* then one of the two schedule tests is applied.                          *)
(***************************************************************************)

MaxDate == 70

DomFields == {Wild, List({15}), List({1, 14})}
MonFields == {Wild, List({1}), List({2}), List({3})}
DowFields == {Wild, List({1}), List({0, 3})}

CronExprs == {Cron(dom, mon, dow) : dom \in DomFields, mon \in MonFields, dow \in DowFields}

NoResult == [test |-> "none", fires |-> FALSE]

InitCron ==
    /\ cronExpr \in CronExprs
    /\ cronDate \in 1..MaxDate
    /\ cronResult = NoResult

EvalCheckDate ==
    /\ cronResult.test = "none"
    /\ cronResult' = [test |-> "checkDate", fires |-> checkDate(cronExpr, cronDate)]
    /\ UNCHANGED <<cronExpr, cronDate, storeVars, obsVars, requests, deletedPrograms, accounts, zone>>

EvalIsScheduled ==
    /\ cronResult.test = "none"
    /\ cronResult' = [test |-> "isScheduled", fires |-> isScheduled(cronExpr, cronDate)]
    /\ UNCHANGED <<cronExpr, cronDate, storeVars, obsVars, requests, deletedPrograms, accounts, zone>>

(***************************************************************************)
(* The stores: programs, activities, subscriptions and tasks.              *)
(*                                                                         *)
(* A task row is kept without its id (a uuid / ObjectId that no handler    *)
(* computes with): the table is a bag of rows, and a request that names a  *)
(* task by id names one of the rows.  Title, description, priority and the *)
(* timestamps are payload that no handler reads to decide anything and are *)
(* left out.                                                               *)
(***************************************************************************)

\* at most this many task rows exist at a time
MaxTasks == 2

\* const today = new Date(): the current calendar day (Mon 15 Jan 2024)
Today == 15

\* const DAYS_TO_POPULATE = 30
DAYS_TO_POPULATE == 30

Users == {1, 2}

\* program 1: personal program of user 1; program 2: shared program created
\* by user 2; program 3: personal program of user 2 (no activities)
Programs == {1, 2, 3}
programs == <<[creator |-> 1, isPersonal |-> TRUE],
              [creator |-> 2, isPersonal |-> FALSE],
              [creator |-> 2, isPersonal |-> TRUE]>>

\* the rows of programs a user's client may select (row level security):
\* not deleted and public or the user's own, or subscribed to; personal
\* programs are inserted with is_public false, the shared program is public
Visible(u, p) ==
    \/ /\ p \notin deletedPrograms
       /\ (programs[p].creator = u \/ ~programs[p].isPersonal)
    \/ <<u, p>> \in subscriptions

Activities == {1, 2}

\* the days a request may name: yesterday, today, tomorrow
RequestDays == (Today - 1)..(Today + 1)

\* the programs the subscription requests name
SharedPrograms == {1, 2}

\* task.activity_id of an ad-hoc task
NoActivity == 0

Task(u, a, d, c, del, st) ==
    [user |-> u, activity |-> a, dueDate |-> d,
     isCompleted |-> c, isDeleted |-> del, isSticky |-> st]

\* INSERT of a fresh row: is_completed, is_deleted and is_sticky default to false
NewTask(u, a, d) == Task(u, a, d, FALSE, FALSE, FALSE)

EmptyBag == << >>
Copies(B, r) == IF r \in DOMAIN B THEN B[r] ELSE 0
BagAdd(B, r) ==
    [x \in DOMAIN B \cup {r} |-> IF x = r THEN Copies(B, r) + 1 ELSE B[x]]
BagRemove(B, r) ==
    [x \in {y \in DOMAIN B : y # r \/ B[y] > 1} |-> IF x = r THEN B[r] - 1 ELSE B[x]]

RECURSIVE SumOver(_, _)
SumOver(S, B) ==
    IF S = {} THEN 0
    ELSE LET x == CHOOSE y \in S : TRUE IN B[x] + SumOver(S \ {x}, B)

\* number of rows
BagSize(B) == SumOver(DOMAIN B, B)

\* UPDATE ... : every row is replaced by f[row]
BagMap(B, f) ==
    [y \in {f[x] : x \in DOMAIN B} |-> SumOver({x \in DOMAIN B : f[x] = y}, B)]

\* DELETE ... : the rows in keep stay
BagFilter(B, keep) == [x \in DOMAIN B \cap keep |-> B[x]]

\* ascending sequence of the members of a set of numbers
SortedSeq(S) ==
    CHOOSE s \in [1..Cardinality(S) -> S] :
        \A i, j \in 1..Cardinality(S) : i < j => s[i] < s[j]

RECURSIVE Flatten(_)
Flatten(ss) == IF ss = <<>> THEN <<>> ELSE Head(ss) \o Flatten(Tail(ss))

\* activities:activities (...) of a program row, deleted ones included
ProgramActivities(p) ==
    SortedSeq({a \in Activities : activities[a].program = p})

\* the programs reached through the user's subscription rows
SubscribedPrograms(u) == SortedSeq({p \in Programs : <<u, p>> \in subscriptions})

\* the activities of all programs the user is subscribed to
SubscribedActivities(u) ==
    Flatten([i \in 1..Len(SubscribedPrograms(u)) |->
                ProgramActivities(SubscribedPrograms(u)[i])])

\* the rows with the given user, activity and due date that are not deleted
Matching_live(ts, u, a, d) ==
    {t \in DOMAIN ts : t.user = u /\ t.activity = a /\ t.dueDate = d /\ ~t.isDeleted}

\* the rows with the given user, activity and due date
Matching(ts, u, a, d) ==
    {t \in DOMAIN ts : t.user = u /\ t.activity = a /\ t.dueDate = d}

Flags == [isCompleted : BOOLEAN, isDeleted : BOOLEAN, isSticky : BOOLEAN]

\* the row a query without ORDER BY returns first: any of the matching rows
\* (pref describes the one the store happens to return)
FirstRow(S, pref) ==
    IF \E t \in S : /\ t.isCompleted = pref.isCompleted
                    /\ t.isDeleted = pref.isDeleted
                    /\ t.isSticky = pref.isSticky
    THEN CHOOSE t \in S : /\ t.isCompleted = pref.isCompleted
                          /\ t.isDeleted = pref.isDeleted
                          /\ t.isSticky = pref.isSticky
    ELSE CHOOSE t \in S : TRUE

\* the last request as a client sees it: for populateUserTasks the user
\* and day it named, the count of its response, and whether the request
\* before it was populateUserTasks for the same user and day
Resp(op, u, d, n, rep) ==
    [op |-> op, user |-> u, day |-> d, count |-> n, repeat |-> rep,
     program |-> 0, activity |-> NoActivity, task |-> [user |-> 0], status |-> 0]

\* a request on a program that was carried out: its name, user and program
Req(op, u, p) ==
    [op |-> op, user |-> u, day |-> 0, count |-> 0, repeat |-> FALSE,
     program |-> p, activity |-> NoActivity, task |-> [user |-> 0], status |-> 0]

\* a request on an activity that was carried out
ReqActivity(op, u, a) == [Req(op, u, activities[a].program) EXCEPT !.activity = a]

\* a request on a program with the status it was answered with
ReqStatus(op, u, p, status) == [Req(op, u, p) EXCEPT !.status = status]

\* any other request was the last one
Other == Resp("other", 0, 0, 0, FALSE)

(***************************************************************************)
(* populateUserTasks, Supabase with sticky tasks (part_009 604-793)        *)
(***************************************************************************)

\* a carry-forward that writes the task at the target day and leaves the
\* row at its old date
carryForward_copy(ts, u, day) ==
    LET isIncompleteSticky(t) ==
            t.user = u /\ t.isSticky /\ ~t.isCompleted /\ t.dueDate < day
        carried == {t \in DOMAIN ts : isIncompleteSticky(t)}
    IN  [y \in DOMAIN ts \cup {[t EXCEPT !.dueDate = day] : t \in carried} |->
            Copies(ts, y)
            + SumOver({t \in carried : [t EXCEPT !.dueDate = day] = y}, ts)]

\* the carry-forward of incomplete sticky tasks to the target day
carryForward(ts, u, day) ==
    LET isIncompleteSticky(t) ==
            t.user = u /\ t.isSticky /\ ~t.isCompleted /\ t.dueDate < day
        move(t) == IF isIncompleteSticky(t) THEN [t EXCEPT !.dueDate = day] ELSE t
    IN  BagMap(ts, [t \in DOMAIN ts |-> move(t)])

\* the loop over scheduledActivities: a task is inserted when no row exists
RECURSIVE processScheduled(_, _, _, _, _)
processScheduled(ts, acts, u, day, count) ==
    IF acts = <<>> THEN [tasks |-> ts, count |-> count]
    ELSE LET activity == Head(acts)
             existingTasks == Matching(ts, u, activity, day)
         IN  IF existingTasks = {}
             THEN processScheduled(BagAdd(ts, NewTask(u, activity, day)),
                                   Tail(acts), u, day, count + 1)
             ELSE processScheduled(ts, Tail(acts), u, day, count)

\* new Date(day) is midnight UTC of the day; setHours(0, 0, 0, 0) then moves
\* it to midnight, server time, of the server's calendar date at that
\* instant: the day itself in UTC, the day before it west of UTC
LocalDate(day) == IF zone = "west" THEN day - 1 ELSE day

\* the rows and the count populateUserTasks ends with
populateResult(u, day) ==
    LET targetDate == LocalDate(day)
        isFutureDay == targetDate > Today
        moved == IF ~isFutureDay THEN carryForward(tasks, u, day) ELSE tasks
        allActivities == SubscribedActivities(u)
        scheduledActivities ==
            SelectSeq(allActivities,
                      LAMBDA a : isScheduled(activities[a].cron, targetDate))
    IN  processScheduled(moved, scheduledActivities, u, day, 0)

populateUserTasks(u, day) ==
    LET r == populateResult(u, day)
    IN  /\ BagSize(r.tasks) <= MaxTasks
        /\ tasks' = r.tasks
        /\ UNCHANGED <<activities, subscriptions>>

(***************************************************************************)
(* populateUserTasks, Supabase first version (tasks.js 329-506)            *)
(***************************************************************************)

\* the personal program of a user: creator_id = userId, is_personal = true
PersonalProgram(u) ==
    CHOOSE p \in Programs : programs[p].creator = u /\ programs[p].isPersonal

\* the upsert payload with the completion flag reset
upsertRow_reset(row, u, activity, day) ==
    [row EXCEPT !.user = u, !.activity = activity, !.dueDate = day,
                !.isCompleted = FALSE, !.isDeleted = FALSE]

\* the upsert over an existing row: is_completed is copied from the row
\* that was read, is_deleted is written false, is_sticky is not in the payload
upsertRow(row, u, activity, day) ==
    [row EXCEPT !.user = u, !.activity = activity, !.dueDate = day,
                !.isCompleted = row.isCompleted, !.isDeleted = FALSE]

\* the loop over scheduledActivities: the row is upserted when none exists
\* or when the first row found is not deleted
RECURSIVE processScheduled_v1(_, _, _, _, _, _)
processScheduled_v1(ts, acts, u, day, count, pref) ==
    IF acts = <<>> THEN [tasks |-> ts, count |-> count]
    ELSE LET activity == Head(acts)
             existingTasks == Matching(ts, u, activity, day)
             row == FirstRow(existingTasks, pref[activity])
         IN  IF existingTasks = {}
             THEN processScheduled_v1(BagAdd(ts, NewTask(u, activity, day)),
                                      Tail(acts), u, day, count + 1, pref)
             ELSE IF ~row.isDeleted
             THEN processScheduled_v1(
                      BagAdd(BagRemove(ts, row), upsertRow(row, u, activity, day)),
                      Tail(acts), u, day, count + 1, pref)
             ELSE processScheduled_v1(ts, Tail(acts), u, day, count, pref)

populateResult_v1(u, day, pref) ==
    LET allActivities ==
            ProgramActivities(PersonalProgram(u)) \o SubscribedActivities(u)
        scheduledActivities ==
            SelectSeq(allActivities, LAMBDA a : isScheduled(activities[a].cron, day))
    IN  processScheduled_v1(tasks, scheduledActivities, u, day, 0, pref)

populateUserTasks_v1(u, day, pref) ==
    LET r == populateResult_v1(u, day, pref)
    IN  /\ BagSize(r.tasks) <= MaxTasks
        /\ tasks' = r.tasks
        /\ UNCHANGED <<activities, subscriptions>>

(***************************************************************************)
(* populateUserTasks, Mongo (tasks.js 667-801)                             *)
(***************************************************************************)

\* the loop over activity_list: Task.findOne, then Task.findOneAndUpdate
\* with upsert on the rows that are not deleted
RECURSIVE processActivityList(_, _, _, _, _, _)
processActivityList(ts, acts, u, day, count, pref) ==
    IF acts = <<>> THEN [tasks |-> ts, count |-> count]
    ELSE LET activity == Head(acts)
             found == Matching(ts, u, activity, day)
             existingTask == FirstRow(found, pref[activity])
             live == {t \in found : ~t.isDeleted}
             target == FirstRow(live, pref[activity])
         IN  IF found = {} \/ ~existingTask.isDeleted
             THEN IF live = {}
                  THEN processActivityList(BagAdd(ts, NewTask(u, activity, day)),
                                           Tail(acts), u, day, count + 1, pref)
                  ELSE processActivityList(
                           BagAdd(BagRemove(ts, target),
                                  [target EXCEPT !.user = u, !.activity = activity,
                                                 !.dueDate = day, !.isDeleted = FALSE]),
                           Tail(acts), u, day, count + 1, pref)
             ELSE processActivityList(ts, Tail(acts), u, day, count, pref)

populateResult_mongo(u, day, pref) ==
    IF day < Today
    THEN [tasks |-> tasks, count |-> 0]
    ELSE LET acts == SubscribedActivities(u)
             activity_list ==
                 SelectSeq(acts, LAMBDA a : checkDate(activities[a].cron, day))
         IN  processActivityList(tasks, activity_list, u, day, 0, pref)

populateUserTasks_mongo(u, day, pref) ==
    LET r == populateResult_mongo(u, day, pref)
    IN  /\ BagSize(r.tasks) <= MaxTasks
        /\ tasks' = r.tasks
        /\ UNCHANGED <<activities, subscriptions>>

(***************************************************************************)
(* manageFutureTasks (tasks.js 570-636)                                    *)
(***************************************************************************)

\* the (day, activity) pairs of the backfill, in the order of the two loops
Occurrences(p) ==
    Flatten([i \in 1..DAYS_TO_POPULATE |->
        LET targetDate == Today + (i - 1)
            activitiesForDay ==
                SelectSeq(ProgramActivities(p),
                          LAMBDA a : checkDate(activities[a].cron, targetDate))
        IN  [k \in 1..Len(activitiesForDay) |-> <<targetDate, activitiesForDay[k]>>]])

\* a task is created for an occurrence unless a task that is not deleted exists
RECURSIVE createFuture(_, _, _)
createFuture(ts, occ, u) ==
    IF occ = <<>> THEN ts
    ELSE LET d == Head(occ)[1]
             activity == Head(occ)[2]
             existingTask == {t \in Matching(ts, u, activity, d) : ~t.isDeleted}
         IN  IF existingTask = {}
             THEN createFuture(BagAdd(ts, NewTask(u, activity, d)), Tail(occ), u)
             ELSE createFuture(ts, Tail(occ), u)

manageFutureTasks(u, p, isSubscribing) ==
    IF ProgramActivities(p) = <<>>
    THEN UNCHANGED <<tasks, activities, subscriptions>>
    ELSE IF isSubscribing
    THEN LET r == createFuture(tasks, Occurrences(p), u)
         IN  /\ BagSize(r) <= MaxTasks
             /\ tasks' = r
             /\ UNCHANGED <<activities, subscriptions>>
    ELSE LET markDeleted(t) ==
                 IF /\ t.user = u
                    /\ t.activity # NoActivity
                    /\ activities[t.activity].program = p
                    /\ t.dueDate >= Today
                    /\ ~t.isDeleted
                 THEN [t EXCEPT !.isDeleted = TRUE] ELSE t
         IN  /\ tasks' = BagMap(tasks, [t \in DOMAIN tasks |-> markDeleted(t)])
             /\ UNCHANGED <<activities, subscriptions>>

(***************************************************************************)
(* subscribeProgram / unsubscribeProgram (programs.js)                     *)
(***************************************************************************)

subscribeProgram(u, p) ==
    IF <<u, p>> \in subscriptions
    THEN UNCHANGED <<tasks, activities, subscriptions>>
    ELSE /\ subscriptions' = subscriptions \cup {<<u, p>>}
         /\ UNCHANGED <<tasks, activities>>

\* the same request without the due_date filter of the delete
unsubscribeProgram_all(u, p) ==
    IF ~Visible(u, p) \/ programs[p].isPersonal
    THEN UNCHANGED <<tasks, activities, subscriptions>>
    ELSE IF <<u, p>> \notin subscriptions
    THEN UNCHANGED <<tasks, activities, subscriptions>>
    ELSE LET acts == {a \in Activities : activities[a].program = p /\ ~activities[a].isDeleted}
             keep(t) == ~(t.user = u /\ t.activity \in acts)
         IN  /\ tasks' = BagFilter(tasks, {t \in DOMAIN tasks : keep(t)})
             /\ subscriptions' = subscriptions \ {<<u, p>>}
             /\ UNCHANGED activities
unsubscribeProgram(u, p) ==
    IF ~Visible(u, p) \/ programs[p].isPersonal
    THEN UNCHANGED <<tasks, activities, subscriptions>>
    ELSE IF <<u, p>> \notin subscriptions
    THEN UNCHANGED <<tasks, activities, subscriptions>>
    ELSE LET acts == {a \in Activities : activities[a].program = p /\ ~activities[a].isDeleted}
             keep(t) == ~(t.user = u /\ t.activity \in acts /\ t.dueDate >= Today)
         IN  /\ tasks' = BagFilter(tasks, {t \in DOMAIN tasks : keep(t)})
             /\ subscriptions' = subscriptions \ {<<u, p>>}
             /\ UNCHANGED activities

\* the status unsubscribeProgram answers with
unsubscribeStatus(u, p) ==
    IF ~Visible(u, p) THEN 400
    ELSE IF programs[p].isPersonal THEN 403
    ELSE IF <<u, p>> \notin subscriptions THEN 404
    ELSE 200

(***************************************************************************)
(* deleteProgram (programs.js 450-499)                                     *)
(***************************************************************************)

\* the same request without the test of is_personal
deleteProgram_any(u, p) ==
    IF ~Visible(u, p) \/ programs[p].creator # u
    THEN UNCHANGED <<tasks, activities, subscriptions, deletedPrograms>>
    ELSE /\ deletedPrograms' = deletedPrograms \cup {p}
         /\ UNCHANGED <<tasks, activities, subscriptions>>

\* the program is marked deleted by its creator unless it is personal
deleteProgram(u, p) ==
    IF ~Visible(u, p) \/ programs[p].creator # u
    THEN UNCHANGED <<tasks, activities, subscriptions, deletedPrograms>>
    ELSE IF programs[p].isPersonal
    THEN UNCHANGED <<tasks, activities, subscriptions, deletedPrograms>>
    ELSE /\ deletedPrograms' = deletedPrograms \cup {p}
         /\ UNCHANGED <<tasks, activities, subscriptions>>

\* the status deleteProgram answers with
deleteProgramStatus(u, p) ==
    IF ~Visible(u, p) \/ programs[p].creator # u THEN 404
    ELSE IF programs[p].isPersonal THEN 403
    ELSE 200

(***************************************************************************)
(* completeTask, deleteTask, createTask                                    *)
(***************************************************************************)

\* the id of the request names a row of the table, or no row at all
NoTask == [user |-> 0]
Found(u, task) == task \in DOMAIN tasks /\ task.user = u

\* the same request with the flag set instead of negated
completeTask_set(u, task) ==
    IF ~Found(u, task)
    THEN UNCHANGED <<tasks, activities, subscriptions>>
    ELSE /\ tasks' = BagAdd(BagRemove(tasks, task), [task EXCEPT !.isCompleted = TRUE])
         /\ UNCHANGED <<activities, subscriptions>>

completeTask(u, task) ==
    IF ~Found(u, task)
    THEN UNCHANGED <<tasks, activities, subscriptions>>
    ELSE LET isComplete == task.isCompleted
         IN  /\ tasks' = BagAdd(BagRemove(tasks, task), [task EXCEPT !.isCompleted = ~isComplete])
             /\ UNCHANGED <<activities, subscriptions>>

\* the same request with the row removed whether or not it has an activity
deleteTask_hard(u, task) ==
    IF ~Found(u, task)
    THEN UNCHANGED <<tasks, activities, subscriptions>>
    ELSE /\ tasks' = BagRemove(tasks, task)
         /\ UNCHANGED <<activities, subscriptions>>

deleteTask(u, task) ==
    IF ~Found(u, task)
    THEN UNCHANGED <<tasks, activities, subscriptions>>
    ELSE IF task.activity # NoActivity
         THEN /\ tasks' = BagAdd(BagRemove(tasks, task), [task EXCEPT !.isDeleted = TRUE])
              /\ UNCHANGED <<activities, subscriptions>>
         ELSE /\ tasks' = BagRemove(tasks, task)
              /\ UNCHANGED <<activities, subscriptions>>

\* the non-recurring branch: an ad-hoc task without activity
createTask(u, dueDate, isSticky) ==
    /\ BagSize(tasks) < MaxTasks
    /\ tasks' = BagAdd(tasks, Task(u, NoActivity, dueDate, FALSE, FALSE, isSticky))
    /\ UNCHANGED <<activities, subscriptions>>

(***************************************************************************)
(* updateTask (part_009 795-952)                                           *)
(***************************************************************************)

\* a request field: absent, or present with a value
None == {}
Some(v) == {v}
Opt(S) == {None} \cup {Some(v) : v \in S}

\* dueDate || task.due_date,
\* isSticky !== undefined ? isSticky : task.is_sticky
OrElse(v, old) == IF v = None THEN old ELSE CHOOSE x \in v : TRUE

\* a recurringDays that is present and falsy without being nullish: false, 0
\* or the empty string; Object.entries of it is the empty list
Falsy == {{}, {0}}

\* the test (isRecurring !== undefined || recurringDays): absent and falsy
\* recurringDays both fail it
Truthy(recurringDays) == recurringDays \notin {None, Falsy}

updateTask(u, task, dueDate, isSticky, isRecurring, recurringDays, isEditingRecurrence) ==
    IF ~Found(u, task)
    THEN UNCHANGED <<tasks, activities, subscriptions>>
    ELSE
    IF /\ task.activity # NoActivity
       /\ ~programs[activities[task.activity].program].isPersonal
       /\ (isRecurring # None \/ Truthy(recurringDays))
    THEN UNCHANGED <<tasks, activities, subscriptions>>
    ELSE
    LET updated == [task EXCEPT !.dueDate = OrElse(dueDate, task.dueDate),
                                !.isSticky = OrElse(isSticky, task.isSticky)]
    IN
    IF isEditingRecurrence /\ task.activity # NoActivity
    THEN IF recurringDays = None
         THEN \* Object.entries(undefined) throws: caught, 500
              UNCHANGED <<tasks, activities, subscriptions>>
         ELSE LET days == IF recurringDays = Falsy THEN {}
                          ELSE CHOOSE x \in recurringDays : TRUE
                  cronExpression == Cron(Wild, Wild, List(days))
                  isFuture(t) == /\ t.user = u
                                 /\ t.activity = task.activity
                                 /\ t.dueDate > Today
                  dayMatches(t) == DayOfWeek(t.dueDate) \in days
                  keep(t) == ~(isFuture(t) /\ ~dayMatches(t))
                  refresh(t) == IF isFuture(t) /\ dayMatches(t)
                                THEN [t EXCEPT !.isSticky = OrElse(isSticky, task.isSticky)]
                                ELSE t
                  updatedFuture == BagMap(tasks, [t \in DOMAIN tasks |-> refresh(t)])
                  afterFuture == BagFilter(updatedFuture,
                                           {t \in DOMAIN updatedFuture : keep(t)})
                  \* the row named by the request, as the bulk update left it
                  current == refresh(task)
              IN  /\ activities' =
                         \* the activities row is written only when the
                         \* caller may manage the program (row level security)
                         IF programs[activities[task.activity].program].creator = u
                         THEN [activities EXCEPT ![task.activity].cron = cronExpression]
                         ELSE activities
                  /\ tasks' = IF current \in DOMAIN afterFuture
                              THEN BagAdd(BagRemove(afterFuture, current),
                                          [updated EXCEPT !.isSticky =
                                               OrElse(isSticky, task.isSticky)])
                              ELSE afterFuture
                  /\ UNCHANGED subscriptions
    ELSE /\ tasks' = BagAdd(BagRemove(tasks, task), updated)
         /\ UNCHANGED <<activities, subscriptions>>

(***************************************************************************)
(* editActivity (activities.js 201-270; part_009 205-255)                  *)
(***************************************************************************)

\* activities.js: the activity is updated and the caller's tasks of the
\* activity due today or later are marked deleted
editActivity(u, a, cron) ==
    IF activities[a].isDeleted
    THEN UNCHANGED <<tasks, activities, subscriptions>>
    ELSE IF programs[activities[a].program].creator # u
    THEN UNCHANGED <<tasks, activities, subscriptions>>
    ELSE LET markDeleted(t) ==
                 IF t.user = u /\ t.activity = a /\ t.dueDate >= Today
                 THEN [t EXCEPT !.isDeleted = TRUE] ELSE t
         IN  /\ activities' = [activities EXCEPT ![a].cron = OrElse(cron, activities[a].cron)]
             /\ tasks' = BagMap(tasks, [t \in DOMAIN tasks |-> markDeleted(t)])
             /\ UNCHANGED subscriptions

\* part_009: the activity is updated, the tasks are left alone
editActivity_v1(u, a, cron) ==
    IF activities[a].isDeleted
    THEN UNCHANGED <<tasks, activities, subscriptions>>
    ELSE IF programs[activities[a].program].creator # u
    THEN UNCHANGED <<tasks, activities, subscriptions>>
    ELSE /\ activities' = [activities EXCEPT ![a].cron = OrElse(cron, activities[a].cron)]
         /\ UNCHANGED <<tasks, subscriptions>>

(***************************************************************************)
(* deleteActivity (activities.js 272-336; part_009 257-302; part_008       *)
(* 135-144)                                                                *)
(***************************************************************************)

\* activities.js: the activity is marked deleted and, through the caller's
\* client, the caller's tasks of the activity due today or later are too
deleteActivity(u, a) ==
    IF activities[a].isDeleted
    THEN UNCHANGED <<tasks, activities, subscriptions>>
    ELSE IF programs[activities[a].program].creator # u
    THEN UNCHANGED <<tasks, activities, subscriptions>>
    ELSE LET markDeleted(t) ==
                 IF t.user = u /\ t.activity = a /\ t.dueDate >= Today
                 THEN [t EXCEPT !.isDeleted = TRUE] ELSE t
         IN  /\ activities' = [activities EXCEPT ![a].isDeleted = TRUE]
             /\ tasks' = BagMap(tasks, [t \in DOMAIN tasks |-> markDeleted(t)])
             /\ UNCHANGED subscriptions

\* part_009: the activity is marked deleted, the tasks are left alone
deleteActivity_v1(u, a) ==
    IF activities[a].isDeleted
    THEN UNCHANGED <<tasks, activities, subscriptions>>
    ELSE IF programs[activities[a].program].creator # u
    THEN UNCHANGED <<tasks, activities, subscriptions>>
    ELSE /\ activities' = [activities EXCEPT ![a].isDeleted = TRUE]
         /\ UNCHANGED <<tasks, subscriptions>>

\* an activity document that Activity.deleteOne removed: no program lists it
Removed == [program |-> 0, cron |-> Missing, isDeleted |-> FALSE]

\* part_008: the document is removed by any caller, the tasks are left alone
deleteActivity_mongo(u, a) ==
    /\ activities' = [activities EXCEPT ![a] = Removed]
    /\ UNCHANGED <<tasks, subscriptions>>

(***************************************************************************)
(* Registration and the personal program (auth.js 18-128; programs.js      *)
(* createProgram 6-68, getPersonalProgram 319-388, deleteProgram 450-499;  *)
(* validation: part_010 151-175 and 283-304).  The programs rows are kept  *)
(* in insertion order and a row's id is its position.                      *)
(***************************************************************************)

MaxPrograms == 3

NotRegistered == [pc |-> "none", program |-> 0]
NoCall == [pc |-> "idle", user |-> 0, program |-> 0]

NoAccounts ==
    [reg |-> [u \in Users |-> NotRegistered],
     rows |-> <<>>,
     subs |-> {},
     calls |-> [r \in {1, 2} |-> NoCall]]

ProgramRow(u, personal) == [creator |-> u, isPersonal |-> personal, isDeleted |-> FALSE]

\* the ids of the personal programs of a user, asked for by the user's
\* client: a deleted row is hidden unless the user is subscribed to it
PersonalPrograms(u) ==
    {i \in 1..Len(accounts.rows) :
        /\ accounts.rows[i].creator = u
        /\ accounts.rows[i].isPersonal
        /\ (~accounts.rows[i].isDeleted \/ <<u, i>> \in accounts.subs)}

AccountsFrame == UNCHANGED <<storeVars, userDeleted, requests, cronVars, deletedPrograms, zone>>

\* register: signUp, then the profiles and settings rows
RegisterSignUp(u) ==
    /\ accounts.reg[u].pc = "none"
    /\ accounts' = [accounts EXCEPT !.reg[u].pc = "profile"]
    /\ last' = Other
    /\ AccountsFrame

\* register: the personal program is inserted with the admin client,
\* whatever the table holds
RegisterProgram(u) ==
    /\ accounts.reg[u].pc = "profile"
    /\ Len(accounts.rows) < MaxPrograms
    /\ accounts' = [accounts EXCEPT !.rows = Append(@, ProgramRow(u, TRUE)),
                                    !.reg[u] = [pc |-> "program",
                                                program |-> Len(accounts.rows) + 1]]
    /\ last' = Other
    /\ AccountsFrame

\* register: the subscription to it, then 201
RegisterSubscribe(u) ==
    /\ accounts.reg[u].pc = "program"
    /\ accounts' = [accounts EXCEPT !.subs = @ \cup {<<u, accounts.reg[u].program>>},
                                    !.reg[u].pc = "done"]
    /\ last' = ReqStatus("register", u, accounts.reg[u].program, 201)
    /\ AccountsFrame

\* getPersonalProgram, the select with maybeSingle: one row is returned
\* (200), several are an error (400), none starts the creation.  The request
\* carries a token of the user, who has signed up
GetPersonalProgramSelect(r, u) ==
    /\ accounts.calls[r].pc = "idle"
    /\ accounts.reg[u].pc # "none"
    /\ IF PersonalPrograms(u) = {}
       THEN /\ accounts' = [accounts EXCEPT !.calls[r] =
                                [pc |-> "insert", user |-> u, program |-> 0]]
            /\ last' = Other
       ELSE /\ UNCHANGED accounts
            /\ last' = ReqStatus("getPersonalProgram", u, 0,
                                 IF Cardinality(PersonalPrograms(u)) = 1 THEN 200 ELSE 400)
    /\ AccountsFrame

\* getPersonalProgram: the insert of the personal program
GetPersonalProgramInsert(r) ==
    /\ accounts.calls[r].pc = "insert"
    /\ Len(accounts.rows) < MaxPrograms
    /\ accounts' = [accounts EXCEPT
                        !.rows = Append(@, ProgramRow(accounts.calls[r].user, TRUE)),
                        !.calls[r] = [pc |-> "subscribe", user |-> accounts.calls[r].user,
                                      program |-> Len(accounts.rows) + 1]]
    /\ last' = Other
    /\ AccountsFrame

\* getPersonalProgram: the subscription to it, then 201
GetPersonalProgramSubscribe(r) ==
    /\ accounts.calls[r].pc = "subscribe"
    /\ accounts' = [accounts EXCEPT
                        !.subs = @ \cup {<<accounts.calls[r].user, accounts.calls[r].program>>},
                        !.calls[r] = NoCall]
    /\ last' = ReqStatus("getPersonalProgram", accounts.calls[r].user,
                         accounts.calls[r].program, 201)
    /\ AccountsFrame

\* the bodies of POST /programs: the validation schema knows no isPersonal
\* and no title, so a body that carries isPersonal is answered 400
ProgramBodies == [isPersonal : {"absent", "true", "false"}]

\* createProgram behind its validation: is_personal is isPersonal === 'true'
\* of a body that cannot carry isPersonal; the insert may be refused by the
\* table (500)
createProgramRow(u, body, inserted) ==
    IF body.isPersonal # "absent"
    THEN /\ UNCHANGED accounts
         /\ last' = ReqStatus("createProgram", u, 0, 400)
    ELSE IF inserted
    THEN /\ Len(accounts.rows) < MaxPrograms
         /\ accounts' = [accounts EXCEPT
                             !.rows = Append(@, ProgramRow(u, body.isPersonal = "true"))]
         /\ last' = ReqStatus("createProgram", u, Len(accounts.rows) + 1, 201)
    ELSE /\ UNCHANGED accounts
         /\ last' = ReqStatus("createProgram", u, 0, 500)

\* deleteProgram on the programs rows: 404 unless the caller's client sees
\* the row and the caller created it, 403 for a personal program
deleteProgramRow(u, i) ==
    LET row == accounts.rows[i]
        seen == ~row.isDeleted \/ <<u, i>> \in accounts.subs
    IN  IF ~seen \/ row.creator # u
        THEN /\ UNCHANGED accounts
             /\ last' = ReqStatus("deleteProgram", u, i, 404)
        ELSE IF row.isPersonal
        THEN /\ UNCHANGED accounts
             /\ last' = ReqStatus("deleteProgram", u, i, 403)
        ELSE /\ accounts' = [accounts EXCEPT !.rows[i].isDeleted = TRUE]
             /\ last' = ReqStatus("deleteProgram", u, i, 200)

(***************************************************************************)
(* The bulk loops when the database refuses the requests on the tasks of   *)
(* one activity (part_009 737-792; tasks.js 449-497, 570-636, 748-801).    *)
(* The Supabase client returns the error and the loop goes on with         *)
(* `continue`: the activity is as good as not scheduled.  A Mongoose call  *)
(* throws: the loop ends at that activity, with the rows written so far.   *)
(***************************************************************************)

\* the scheduled activities without the one whose requests fail
Skipping(acts, failing) == SelectSeq(acts, LAMBDA a : a # failing)

\* the scheduled activities before the one whose requests fail
RECURSIVE Before(_, _)
Before(acts, failing) ==
    IF acts = <<>> \/ Head(acts) = failing THEN <<>>
    ELSE <<Head(acts)>> \o Before(Tail(acts), failing)

\* part_009: checkError and upsertError are logged and skipped, 200
populateFailing(u, day, failing) ==
    LET targetDate == LocalDate(day)
        isFutureDay == targetDate > Today
        moved == IF ~isFutureDay THEN carryForward(tasks, u, day) ELSE tasks
        scheduledActivities ==
            SelectSeq(SubscribedActivities(u),
                      LAMBDA a : isScheduled(activities[a].cron, targetDate))
        r == processScheduled(moved, Skipping(scheduledActivities, failing), u, day, 0)
    IN  [tasks |-> r.tasks, count |-> r.count, status |-> 200]

\* tasks.js, Supabase: the same
populateFailing_v1(u, day, pref, failing) ==
    LET scheduledActivities ==
            SelectSeq(ProgramActivities(PersonalProgram(u)) \o SubscribedActivities(u),
                      LAMBDA a : isScheduled(activities[a].cron, day))
        r == processScheduled_v1(tasks, Skipping(scheduledActivities, failing),
                                 u, day, 0, pref)
    IN  [tasks |-> r.tasks, count |-> r.count, status |-> 200]

\* tasks.js, Mongo: Task.findOne rejects, the catch of the handler answers 500
populateFailing_mongo(u, day, pref, failing) ==
    IF day < Today
    THEN [tasks |-> tasks, count |-> 0, status |-> 200]
    ELSE LET activity_list ==
                 SelectSeq(SubscribedActivities(u),
                           LAMBDA a : checkDate(activities[a].cron, day))
             done == Before(activity_list, failing)
             r == processActivityList(tasks, done, u, day, 0, pref)
         IN  [tasks |-> r.tasks,
              count |-> IF done = activity_list THEN r.count ELSE 0,
              status |-> IF done = activity_list THEN 200 ELSE 500]

\* manageFutureTasks, subscribing: Task.findOne or Task.create rejects, the
\* catch rethrows and the backfill ends at that occurrence
RECURSIVE BeforeOccurrence(_, _)
BeforeOccurrence(occ, failing) ==
    IF occ = <<>> \/ Head(occ)[2] = failing THEN <<>>
    ELSE <<Head(occ)>> \o BeforeOccurrence(Tail(occ), failing)

manageFutureTasksFailing(u, p, failing) ==
    LET done == BeforeOccurrence(Occurrences(p), failing)
    IN  [tasks |-> createFuture(tasks, done, u),
         count |-> Len(done),
         status |-> IF done = Occurrences(p) THEN 200 ELSE 500]

(***************************************************************************)
(* Specifications                                                          *)
(***************************************************************************)

\* day-of-week selections a recurrence edit may send
DayLists == {{1}, {2}}

\* the rules an activity edit may send: "0 12 * * 1" and "0 12 * * 2"
ActivityCrons == {Cron(Wild, Wild, List({1})), Cron(Wild, Wild, List({2}))}

\* the due dates a new ad-hoc task may have
CreateDays == {Today - 1, Today}

\* the bodies of the updateTask requests: isSticky, recurringDays and
\* isEditingRecurrence (recurringDays is sent with the recurrence editor)
UpdateBodies ==
    {b \in [isSticky : Opt(BOOLEAN), recurringDays : Opt(DayLists),
            isEditingRecurrence : BOOLEAN] :
        b.recurringDays # None => b.isEditingRecurrence}

Prefs == [Activities -> Flags]

NoResp == Resp("none", 0, 0, 0, FALSE)

\* the two populateUserTasks requests that may be in flight; a request is
\* idle, about to check a scheduled activity, about to write, or done
Requests == {1, 2}
Idle == [pc |-> "idle", day |-> 0, todo |-> <<>>, existing |-> {}]

Backends == {"mongo", "supabase_v1", "supabase"}

InitStore ==
    /\ backend \in Backends
    /\ tasks = EmptyBag
    /\ activities =
          <<[program |-> 1, cron |-> Cron(List({16}), Wild, Wild), isDeleted |-> FALSE],
            [program |-> 2, cron |-> Cron(Wild, Wild, List({1})), isDeleted |-> FALSE]>>
    \* registration subscribes each user to the personal program; user 1 may
    \* have subscribed to the shared program
    /\ subscriptions \in {{<<1, 1>>, <<2, 3>>}, {<<1, 1>>, <<2, 3>>, <<1, 2>>}}
    /\ last = NoResp
    /\ userDeleted = {}
    /\ requests = [r \in Requests |-> Idle]
    /\ accounts = NoAccounts
    /\ zone = "utc"
    /\ deletedPrograms = {}

Init ==
    /\ InitStore
    /\ cronExpr = Cron(Wild, Wild, Wild)
    /\ cronDate = 1
    /\ cronResult = NoResult

\* the users that send requests
Callers == {1}

\* the rows a request may name by id
Named == DOMAIN tasks \cup {NoTask}

\* the request repeats the last one: populateUserTasks, same user and day
Repeats(u, day) ==
    last.op = "populateUserTasks" /\ last.user = u /\ last.day = day

\* what a request leaves alone besides the store
Frame == UNCHANGED <<backend, userDeleted, requests, cronVars, deletedPrograms, accounts, zone>>

\* updateTask with the recurrence editor answers 200 and has rewritten the
\* rule: the row is the caller's, it has an activity, the program is personal
RecurrenceEdited(u, t) ==
    /\ Found(u, t)
    /\ t.activity # NoActivity
    /\ programs[activities[t.activity].program].isPersonal

\* editActivity answers 200 and the request carried a new rule
ActivityEdited(u, a, c) ==
    /\ ~activities[a].isDeleted
    /\ programs[activities[a].program].creator = u
    /\ c # None

Populate ==
    /\ backend = "supabase"
    /\ \E u \in Callers, day \in RequestDays :
          /\ populateUserTasks(u, day)
          /\ last' = Resp("populateUserTasks", u, day,
                          populateResult(u, day).count, Repeats(u, day))
    /\ Frame
PopulateV1 ==
    /\ backend = "supabase_v1"
    /\ \E u \in Callers, day \in RequestDays, pref \in Prefs :
          /\ populateUserTasks_v1(u, day, pref)
          /\ last' = Resp("populateUserTasks", u, day,
                          populateResult_v1(u, day, pref).count, Repeats(u, day))
    /\ Frame
PopulateMongo ==
    /\ backend = "mongo"
    /\ \E u \in Callers, day \in RequestDays, pref \in Prefs :
          /\ populateUserTasks_mongo(u, day, pref)
          /\ last' = Resp("populateUserTasks", u, day,
                          populateResult_mongo(u, day, pref).count, Repeats(u, day))
    /\ Frame
ManageFutureTasks ==
    /\ backend = "mongo"
    /\ \E u \in Callers, p \in SharedPrograms, b \in BOOLEAN :
          /\ manageFutureTasks(u, p, b)
          /\ last' = IF ProgramActivities(p) = <<>> THEN Other
                      ELSE IF b THEN Req("manageFutureTasks subscribing", u, p)
                      ELSE Req("manageFutureTasks unsubscribing", u, p)
    /\ Frame
SubscribeProgram ==
    /\ backend \in {"supabase_v1", "supabase"}
    /\ \E u \in Callers, p \in SharedPrograms :
          /\ subscribeProgram(u, p)
          \* status 200, or 400 when the subscription exists
          /\ last' = IF <<u, p>> \notin subscriptions THEN Req("subscribeProgram", u, p)
                      ELSE Other
    /\ Frame
UnsubscribeProgram ==
    /\ backend \in {"supabase_v1", "supabase"}
    /\ \E u \in Callers, p \in SharedPrograms :
          /\ unsubscribeProgram(u, p)
          \* status 200, or 403 / 404
          /\ last' = IF ~programs[p].isPersonal /\ <<u, p>> \in subscriptions
                      THEN Req("unsubscribeProgram", u, p)
                      ELSE Other
    /\ Frame
CompleteTask ==
    /\ \E u \in Callers, t \in Named : completeTask(u, t)
    /\ last' = Other
    /\ Frame
DeleteTask ==
    /\ \E u \in Callers, t \in Named : deleteTask(u, t)
    /\ last' = Other
    /\ Frame
CreateTask ==
    /\ \E u \in Callers, d \in CreateDays, st \in BOOLEAN :
          /\ st => backend = "supabase"
          /\ createTask(u, d, st)
    /\ last' = Other
    /\ Frame
UpdateTask ==
    /\ backend = "supabase"
    /\ \E u \in Callers, t \in Named, b \in UpdateBodies :
          /\ updateTask(u, t, None, b.isSticky, None, b.recurringDays, b.isEditingRecurrence)
          /\ last' = IF /\ b.isEditingRecurrence
                         /\ b.recurringDays # None
                         /\ RecurrenceEdited(u, t)
                      THEN ReqActivity("updateTask", u, t.activity)
                      ELSE Other
    /\ Frame
EditActivity ==
    /\ backend = "supabase"
    /\ \E u \in Callers, a \in Activities, c \in Opt(ActivityCrons) :
          /\ editActivity(u, a, c)
          /\ last' = IF ActivityEdited(u, a, c) THEN ReqActivity("editActivity", u, a)
                      ELSE Other
    /\ Frame
EditActivityV1 ==
    /\ backend = "supabase_v1"
    /\ \E u \in Callers, a \in Activities, c \in Opt(ActivityCrons) :
          /\ editActivity_v1(u, a, c)
          /\ last' = IF ActivityEdited(u, a, c) THEN ReqActivity("editActivity", u, a)
                      ELSE Other
    /\ Frame

Next ==
    \/ Populate
    \/ PopulateV1
    \/ PopulateMongo
    \/ ManageFutureTasks
    \/ SubscribeProgram
    \/ UnsubscribeProgram
    \/ CompleteTask
    \/ DeleteTask
    \/ CreateTask
    \/ UpdateTask
    \/ EditActivity
    \/ EditActivityV1

Spec == Init /\ [][Next]_vars

(***************************************************************************)
(* The task lifecycle on its own: populateUserTasks with its sticky        *)
(* carry-forward, manageFutureTasks, unsubscribeProgram, the recurrence    *)
(* edit of updateTask, completeTask and deleteTask.                        *)
(***************************************************************************)

\* updateTask with isEditingRecurrence and recurringDays
RecurrenceEdit ==
    /\ backend = "supabase"
    /\ \E u \in Callers, t \in Named, b \in UpdateBodies :
          /\ b.isEditingRecurrence
          /\ b.recurringDays # None
          /\ updateTask(u, t, None, b.isSticky, None, b.recurringDays, b.isEditingRecurrence)
          /\ last' = IF RecurrenceEdited(u, t) THEN ReqActivity("updateTask", u, t.activity)
                      ELSE Other
    /\ Frame

NextLifecycle ==
    \/ Populate
    \/ PopulateV1
    \/ PopulateMongo
    \/ ManageFutureTasks
    \/ UnsubscribeProgram
    \/ RecurrenceEdit
    \/ CompleteTask
    \/ DeleteTask

SpecLifecycle == Init /\ [][NextLifecycle]_vars

(***************************************************************************)
(* Sticky tasks on the Supabase controller that has them: tasks are        *)
(* created, made sticky, completed and deleted, and days are populated.    *)
(***************************************************************************)

InitSticky ==
    /\ Init
    /\ backend = "supabase"

NextSticky ==
    \/ Populate
    \/ CreateTask
    \/ UpdateTask
    \/ CompleteTask
    \/ DeleteTask

SpecSticky == InitSticky /\ [][NextSticky]_vars

(***************************************************************************)
(* Deletion by the user, followed by the operations that generate or       *)
(* invalidate tasks: manageFutureTasks, unsubscribeProgram,                *)
(* subscribeProgram, editActivity and populateUserTasks.  The history      *)
(* variable userDeleted holds the key of the last generated task that      *)
(* deleteTask removed.                                                     *)
(***************************************************************************)

DeleteTaskObs ==
    /\ \E u \in Callers, t \in Named :
          /\ deleteTask(u, t)
          /\ userDeleted' = IF Found(u, t) /\ t.activity # NoActivity
                            THEN {<<t.user, t.activity, t.dueDate>>}
                            ELSE userDeleted
    /\ last' = Other
    /\ UNCHANGED <<backend, requests, cronVars, deletedPrograms, accounts, zone>>

NextDeleted ==
    \/ Populate
    \/ PopulateV1
    \/ PopulateMongo
    \/ DeleteTaskObs
    \/ ManageFutureTasks
    \/ UnsubscribeProgram
    \/ SubscribeProgram
    \/ EditActivity
    \/ EditActivityV1

SpecDeleted == Init /\ [][NextDeleted]_vars

(***************************************************************************)
(* Two populateUserTasks requests of one user for one day in flight at     *)
(* once.  Every await on the store is a step of its own: the requests      *)
(* interleave between the existence check of an activity and the write     *)
(* that follows it.  Each store call by itself is atomic.                  *)
(***************************************************************************)

\* the user of the two requests
RaceUser == 1

\* the scheduled activities a request works through, as each variant
\* computes them
scheduledFor(u, day) ==
    IF backend = "supabase"
    THEN SelectSeq(SubscribedActivities(u),
                   LAMBDA a : isScheduled(activities[a].cron, day))
    ELSE IF backend = "supabase_v1"
    THEN SelectSeq(ProgramActivities(PersonalProgram(u)) \o SubscribedActivities(u),
                   LAMBDA a : isScheduled(activities[a].cron, day))
    ELSE IF day < Today THEN <<>>
    ELSE SelectSeq(SubscribedActivities(u),
                   LAMBDA a : checkDate(activities[a].cron, day))

\* the request is received: the sticky carry-forward runs (part_009) and
\* the scheduled activities are computed
StartPopulate(r) ==
    /\ requests[r].pc = "idle"
    /\ \E day \in RequestDays :
          /\ \A q \in Requests : requests[q].pc # "idle" => requests[q].day = day
          /\ tasks' = IF backend = "supabase" /\ ~(day > Today)
                      THEN carryForward(tasks, RaceUser, day) ELSE tasks
          /\ requests' = [requests EXCEPT ![r] =
                 [pc |-> IF scheduledFor(RaceUser, day) = <<>> THEN "done" ELSE "check",
                  day |-> day,
                  todo |-> scheduledFor(RaceUser, day),
                  existing |-> {}]]
    /\ UNCHANGED <<activities, subscriptions, backend, obsVars, cronVars, deletedPrograms, accounts, zone>>

\* the existence check of the next scheduled activity: the rows are read
\* and the first one, if any, is kept in existingTasks / existingTask
CheckExisting(r) ==
    /\ requests[r].pc = "check"
    /\ LET found == Matching(tasks, RaceUser, Head(requests[r].todo), requests[r].day)
       IN  \E e \in (IF found = {} THEN {{}} ELSE {{t} : t \in found}) :
              requests' = [requests EXCEPT ![r].pc = "write", ![r].existing = e]
    /\ UNCHANGED <<tasks, activities, subscriptions, backend, obsVars, cronVars, deletedPrograms, accounts, zone>>

\* the write that follows the check, decided on what the check has read
WriteTask(r) ==
    /\ requests[r].pc = "write"
    /\ LET activity == Head(requests[r].todo)
           day == requests[r].day
           existing == requests[r].existing
           row == CHOOSE t \in existing : TRUE
           live == {t \in Matching(tasks, RaceUser, activity, day) : ~t.isDeleted}
       IN  tasks' =
             IF backend = "supabase"
             THEN \* insert when the check found no row
                  IF existing = {} THEN BagAdd(tasks, NewTask(RaceUser, activity, day))
                  ELSE tasks
             ELSE IF backend = "supabase_v1"
             THEN \* upsert: without id an insert, with id the row is rewritten
                  IF existing = {} THEN BagAdd(tasks, NewTask(RaceUser, activity, day))
                  ELSE IF ~row.isDeleted
                  THEN BagAdd(BagRemove(tasks, row), upsertRow(row, RaceUser, activity, day))
                  ELSE tasks
             ELSE \* findOneAndUpdate with upsert on the rows that are not deleted
                  IF existing = {} \/ ~row.isDeleted
                  THEN IF live = {} THEN BagAdd(tasks, NewTask(RaceUser, activity, day))
                       ELSE tasks
                  ELSE tasks
    /\ requests' = [requests EXCEPT
           ![r].todo = Tail(@),
           ![r].existing = {},
           ![r].pc = IF Tail(requests[r].todo) = <<>> THEN "done" ELSE "check"]
    /\ UNCHANGED <<activities, subscriptions, backend, obsVars, cronVars, deletedPrograms, accounts, zone>>

\* before the two requests arrive the table is empty, or holds a task of
\* today that the user has completed or deleted
InitRace ==
    /\ backend \in Backends
    /\ tasks \in {EmptyBag} \cup
                 {BagAdd(EmptyBag, Task(RaceUser, a, Today, c, del, FALSE)) :
                      a \in Activities, c \in BOOLEAN, del \in BOOLEAN}
    /\ activities =
          <<[program |-> 1, cron |-> Cron(List({16}), Wild, Wild), isDeleted |-> FALSE],
            [program |-> 2, cron |-> Cron(Wild, Wild, List({1})), isDeleted |-> FALSE]>>
    /\ subscriptions \in {{<<1, 1>>, <<2, 3>>}, {<<1, 1>>, <<2, 3>>, <<1, 2>>}}
    /\ last = NoResp
    /\ userDeleted = {}
    /\ requests = [r \in Requests |-> Idle]
    /\ accounts = NoAccounts
    /\ zone = "utc"
    /\ deletedPrograms = {}
    /\ cronExpr = Cron(Wild, Wild, Wild)
    /\ cronDate = 1
    /\ cronResult = NoResult

NextRace ==
    \E r \in Requests :
        \/ StartPopulate(r)
        \/ CheckExisting(r)
        \/ WriteTask(r)

SpecRace == InitRace /\ [][NextRace]_vars

(***************************************************************************)
(* The recurrence evaluator on its own                                     *)
(***************************************************************************)

InitCronSpec ==
    /\ InitStore
    /\ InitCron

NextCron ==
    \/ EvalCheckDate
    \/ EvalIsScheduled

SpecCron == InitCronSpec /\ [][NextCron]_vars

\* expressions that are not valid: missing, of four or seven parts, or with
\* parts that are not numbers
InvalidExprs ==
    {Missing}
    \cup {Parts(n, dom, Wild, dow) : n \in {4, 7}, dom \in DomFields, dow \in DowFields}
    \cup ({Cron(dom, mon, dow) : dom \in {Wild, NonNumeric, List({15})},
                                mon \in {Wild, NonNumeric},
                                dow \in {Wild, NonNumeric, List({1})}}
          \ {Cron(dom, Wild, dow) : dom \in {Wild, List({15})}, dow \in {Wild, List({1})}})

InitInvalidCron ==
    /\ InitStore
    /\ cronExpr \in InvalidExprs
    /\ cronDate \in 1..MaxDate
    /\ cronResult = NoResult

SpecInvalidCron == InitInvalidCron /\ [][NextCron]_vars

\* the store a week after a populate: user 1 subscribed to the shared
\* program, whose activity fired last Monday; the task may be completed
LastWeek == Today - 7

InitUnsubscribe ==
    /\ backend \in Backends
    /\ \E c \in BOOLEAN :
          tasks = BagAdd(EmptyBag, Task(1, 2, LastWeek, c, FALSE, FALSE))
    /\ activities =
          <<[program |-> 1, cron |-> Cron(List({16}), Wild, Wild), isDeleted |-> FALSE],
            [program |-> 2, cron |-> Cron(Wild, Wild, List({1})), isDeleted |-> FALSE]>>
    /\ subscriptions = {<<1, 1>>, <<2, 3>>, <<1, 2>>}
    /\ last = NoResp
    /\ userDeleted = {}
    /\ requests = [r \in Requests |-> Idle]
    /\ accounts = NoAccounts
    /\ zone = "utc"
    /\ deletedPrograms = {}
    /\ cronExpr = Cron(Wild, Wild, Wild)
    /\ cronDate = 1
    /\ cronResult = NoResult

NextUnsubscribe ==
    \/ Populate
    \/ PopulateV1
    \/ PopulateMongo
    \/ ManageFutureTasks
    \/ UnsubscribeProgram
    \/ SubscribeProgram
    \/ CompleteTask
    \/ DeleteTask

SpecUnsubscribe == InitUnsubscribe /\ [][NextUnsubscribe]_vars

\* the requests that rewrite the rule of an activity, among the requests that
\* create and change its tasks
NextEdit ==
    \/ Populate
    \/ PopulateV1
    \/ RecurrenceEdit
    \/ EditActivity
    \/ EditActivityV1
    \/ CompleteTask
    \/ DeleteTask

\* the two back ends that have an activity editor
InitEdit == Init /\ backend \in {"supabase", "supabase_v1"}

SpecEdit == InitEdit /\ [][NextEdit]_vars

\* deleteActivity answers 200 for an activity that was there
ActivityDeleted(u, a) ==
    IF backend = "mongo" THEN activities[a] # Removed
    ELSE ~activities[a].isDeleted /\ programs[activities[a].program].creator = u

DeleteActivity ==
    /\ backend = "supabase"
    /\ \E u \in Callers, a \in Activities :
          /\ deleteActivity(u, a)
          /\ last' = IF ActivityDeleted(u, a) THEN ReqActivity("deleteActivity", u, a)
                      ELSE Other
    /\ Frame
DeleteActivityV1 ==
    /\ backend = "supabase_v1"
    /\ \E u \in Callers, a \in Activities :
          /\ deleteActivity_v1(u, a)
          /\ last' = IF ActivityDeleted(u, a) THEN ReqActivity("deleteActivity", u, a)
                      ELSE Other
    /\ Frame
DeleteActivityMongo ==
    /\ backend = "mongo"
    /\ \E u \in Callers, a \in Activities :
          /\ deleteActivity_mongo(u, a)
          /\ last' = IF ActivityDeleted(u, a) THEN ReqActivity("deleteActivity", u, a)
                      ELSE Other
    /\ Frame

\* activities are deleted and programs left while tasks are populated
NextActivity ==
    \/ Populate
    \/ PopulateV1
    \/ PopulateMongo
    \/ DeleteActivity
    \/ DeleteActivityV1
    \/ DeleteActivityMongo
    \/ UnsubscribeProgram
    \/ ManageFutureTasks
    \/ CompleteTask
    \/ DeleteTask

SpecActivity == Init /\ [][NextActivity]_vars

\* a request that names a task by id, sent by any user: the row it names is
\* kept with the request
ReqTask(op, u, t) == [Req(op, u, 0) EXCEPT !.task = t]

CreateTaskBy ==
    /\ \E u \in Users : createTask(u, Today, FALSE)
    /\ last' = Other
    /\ Frame
DeleteTaskBy ==
    /\ \E u \in Users, t \in Named :
          /\ deleteTask(u, t)
          /\ last' = ReqTask("deleteTask", u, t)
    /\ Frame
CompleteTaskBy ==
    /\ \E u \in Users, t \in Named :
          /\ completeTask(u, t)
          \* repeat: the request follows a completeTask of the same user on
          \* the same task, which that request left with the flag negated
          /\ last' = [ReqTask("completeTask", u, t) EXCEPT !.repeat =
                          /\ last.op = "completeTask"
                          /\ last.user = u
                          /\ Found(u, t)
                          /\ last.task.user = u
                          /\ t = [last.task EXCEPT !.isCompleted = ~last.task.isCompleted]]
    /\ Frame

\* tasks of two users are created, and deleted by either of them
NextTaskOps ==
    \/ Populate
    \/ PopulateV1
    \/ PopulateMongo
    \/ CreateTaskBy
    \/ DeleteTaskBy

SpecTaskOps == Init /\ [][NextTaskOps]_vars

\* tasks of two users are created, and completed by either of them
NextToggle ==
    \/ Populate
    \/ PopulateV1
    \/ PopulateMongo
    \/ CreateTaskBy
    \/ CompleteTaskBy

SpecToggle == Init /\ [][NextToggle]_vars

UnsubscribeProgramBy ==
    /\ backend \in {"supabase_v1", "supabase"}
    /\ \E u \in Users, p \in Programs :
          /\ unsubscribeProgram(u, p)
          /\ last' = ReqStatus("unsubscribeProgram", u, p, unsubscribeStatus(u, p))
    /\ Frame
DeleteProgramBy ==
    /\ backend \in {"supabase_v1", "supabase"}
    /\ \E u \in Users, p \in Programs :
          /\ deleteProgram(u, p)
          /\ last' = ReqStatus("deleteProgram", u, p, deleteProgramStatus(u, p))
    /\ UNCHANGED <<backend, userDeleted, requests, cronVars, accounts, zone>>

\* the two back ends that have a program controller; programs are left and
\* deleted by their subscribers and creators while tasks are populated
InitPrograms == Init /\ backend \in {"supabase", "supabase_v1"}

NextPrograms ==
    \/ Populate
    \/ PopulateV1
    \/ SubscribeProgram
    \/ UnsubscribeProgramBy
    \/ DeleteProgramBy

SpecPrograms == InitPrograms /\ [][NextPrograms]_vars

CreateProgram ==
    /\ \E u \in Users, body \in ProgramBodies, inserted \in BOOLEAN :
          /\ accounts.reg[u].pc # "none"
          /\ createProgramRow(u, body, inserted)
    /\ AccountsFrame
DeleteProgramRow ==
    /\ \E u \in Users, i \in 1..Len(accounts.rows) :
          /\ accounts.reg[u].pc # "none"
          /\ deleteProgramRow(u, i)
    /\ AccountsFrame

\* the requests that insert and delete programs, step by step and interleaved
NextAccounts ==
    \/ \E u \in Users : RegisterSignUp(u)
    \/ \E u \in Users : RegisterProgram(u)
    \/ \E u \in Users : RegisterSubscribe(u)
    \/ \E r \in DOMAIN accounts.calls, u \in Users : GetPersonalProgramSelect(r, u)
    \/ \E r \in DOMAIN accounts.calls : GetPersonalProgramInsert(r)
    \/ \E r \in DOMAIN accounts.calls : GetPersonalProgramSubscribe(r)
    \/ CreateProgram
    \/ DeleteProgramRow

\* the Supabase deployment before anyone has registered
InitAccounts ==
    /\ Init
    /\ backend = "supabase"
    /\ subscriptions = {<<1, 1>>, <<2, 3>>}

SpecAccounts == InitAccounts /\ [][NextAccounts]_vars

\* the activity whose requests the database refuses, if any
Failing == Activities \cup {NoActivity}

\* the answer of a bulk request during which the requests on the tasks of
\* one activity failed
BulkResp(op, u, day, r, failing) ==
    [Resp(op, u, day, r.count, FALSE) EXCEPT !.status = r.status, !.activity = failing]

PopulateFailing ==
    /\ backend = "supabase"
    /\ \E u \in Callers, day \in RequestDays, failing \in Failing :
          LET r == populateFailing(u, day, failing)
          IN  /\ BagSize(r.tasks) <= MaxTasks
              /\ tasks' = r.tasks
              /\ last' = BulkResp("populateUserTasks failing", u, day, r, failing)
    /\ UNCHANGED <<activities, subscriptions>>
    /\ Frame
PopulateFailingV1 ==
    /\ backend = "supabase_v1"
    /\ \E u \in Callers, day \in RequestDays, pref \in Prefs, failing \in Failing :
          LET r == populateFailing_v1(u, day, pref, failing)
          IN  /\ BagSize(r.tasks) <= MaxTasks
              /\ tasks' = r.tasks
              /\ last' = BulkResp("populateUserTasks failing", u, day, r, failing)
    /\ UNCHANGED <<activities, subscriptions>>
    /\ Frame
PopulateFailingMongo ==
    /\ backend = "mongo"
    /\ \E u \in Callers, day \in RequestDays, pref \in Prefs, failing \in Failing :
          LET r == populateFailing_mongo(u, day, pref, failing)
          IN  /\ BagSize(r.tasks) <= MaxTasks
              /\ tasks' = r.tasks
              /\ last' = BulkResp("populateUserTasks failing", u, day, r, failing)
    /\ UNCHANGED <<activities, subscriptions>>
    /\ Frame
ManageFutureTasksFailing ==
    /\ backend = "mongo"
    /\ \E u \in Callers, p \in SharedPrograms, failing \in Failing :
          LET r == manageFutureTasksFailing(u, p, failing)
          IN  /\ BagSize(r.tasks) <= MaxTasks
              /\ tasks' = r.tasks
              /\ last' = [BulkResp("manageFutureTasks failing", u, Today, r, failing)
                              EXCEPT !.program = p]
    /\ UNCHANGED <<activities, subscriptions>>
    /\ Frame

\* user 1 is subscribed to both programs and both activities fire on Mondays
InitBulk ==
    /\ backend \in Backends
    /\ tasks = EmptyBag
    /\ activities =
          <<[program |-> 1, cron |-> Cron(Wild, Wild, List({1})), isDeleted |-> FALSE],
            [program |-> 2, cron |-> Cron(Wild, Wild, List({1})), isDeleted |-> FALSE]>>
    /\ subscriptions = {<<1, 1>>, <<2, 3>>, <<1, 2>>}
    /\ last = NoResp
    /\ userDeleted = {}
    /\ requests = [r \in Requests |-> Idle]
    /\ deletedPrograms = {}
    /\ accounts = NoAccounts
    /\ zone = "utc"
    /\ cronExpr = Cron(Wild, Wild, Wild)
    /\ cronDate = 1
    /\ cronResult = NoResult

NextBulk ==
    \/ PopulateFailing
    \/ PopulateFailingV1
    \/ PopulateFailingMongo
    \/ ManageFutureTasksFailing
    \/ CompleteTask
    \/ DeleteTask

SpecBulk == InitBulk /\ [][NextBulk]_vars

\* the same requests on a server in UTC or in a zone west of UTC
Zones == {"utc", "west"}

InitZone ==
    /\ backend = "supabase"
    /\ tasks = EmptyBag
    /\ activities =
          <<[program |-> 1, cron |-> Cron(List({16}), Wild, Wild), isDeleted |-> FALSE],
            [program |-> 2, cron |-> Cron(Wild, Wild, List({1})), isDeleted |-> FALSE]>>
    /\ subscriptions \in {{<<1, 1>>, <<2, 3>>}, {<<1, 1>>, <<2, 3>>, <<1, 2>>}}
    /\ last = NoResp
    /\ userDeleted = {}
    /\ requests = [r \in Requests |-> Idle]
    /\ accounts = NoAccounts
    /\ zone \in Zones
    /\ deletedPrograms = {}
    /\ cronExpr = Cron(Wild, Wild, Wild)
    /\ cronDate = 1
    /\ cronResult = NoResult

SpecZone == InitZone /\ [][NextSticky]_vars

(***************************************************************************)
(* completeTask step by step (part_009 501-528, tasks.js 861-877): the     *)
(* select of the task and the update are two awaited calls, so another     *)
(* request may run between them                                            *)
(***************************************************************************)

\* a completeTask request that has selected its task: the row that carries
\* the task's id now, the flag the select returned, and (history) the flag
\* the task had before the first of the overlapping requests selected it
Fetched(task, orig) ==
    [pc |-> "fetched", task |-> task, isComplete |-> task.isCompleted, orig |-> orig]

\* the flag a task had before any request in flight or finished selected it
Original(task) ==
    IF \E q \in Requests : requests[q].pc \in {"fetched", "updated"}
                           /\ requests[q].task = task
    THEN LET q == CHOOSE q \in Requests : requests[q].pc \in {"fetched", "updated"}
                                          /\ requests[q].task = task
         IN  requests[q].orig
    ELSE task.isCompleted

\* select('*').eq('id', id).eq('user_id', userId).single(): 404 ends the request
CompleteFetch(r) ==
    /\ requests[r].pc = "idle"
    /\ \E u \in Users, task \in Named :
          /\ task # NoTask => Copies(tasks, task) = 1
          /\ requests' = [requests EXCEPT ![r] =
                 IF Found(u, task) THEN Fetched(task, Original(task))
                 ELSE [pc |-> "notFound"]]
    /\ UNCHANGED <<tasks, activities, subscriptions, backend, obsVars, cronVars, deletedPrograms, accounts, zone>>

\* update({is_completed: !isComplete}).eq('id', id): the row is whatever the
\* task is by now; the requests on the same task follow it
CompleteUpdate(r) ==
    /\ requests[r].pc = "fetched"
    /\ LET task == requests[r].task
           updatedTask == [task EXCEPT !.isCompleted = ~requests[r].isComplete]
       IN  /\ tasks' = BagAdd(BagRemove(tasks, task), updatedTask)
           /\ requests' = [q \in Requests |->
                  IF requests[q].pc \in {"fetched", "updated"} /\ requests[q].task = task
                  THEN [requests[q] EXCEPT !.task = updatedTask,
                                           !.pc = IF q = r THEN "updated" ELSE @]
                  ELSE requests[q]]
    /\ UNCHANGED <<activities, subscriptions, backend, obsVars, cronVars, deletedPrograms, accounts, zone>>

\* two completeTask requests, each one select and one update, on the tasks
\* of two users
InitToggleRace ==
    /\ backend \in Backends
    /\ tasks \in {BagAdd(BagAdd(BagAdd(EmptyBag,
                      Task(1, NoActivity, Today, c1, FALSE, FALSE)),
                      Task(1, 1, Today + 1, c2, FALSE, FALSE)),
                      Task(2, NoActivity, Today, c3, FALSE, FALSE)) :
                  c1 \in BOOLEAN, c2 \in BOOLEAN, c3 \in BOOLEAN}
    /\ activities =
          <<[program |-> 1, cron |-> Cron(List({16}), Wild, Wild), isDeleted |-> FALSE],
            [program |-> 2, cron |-> Cron(Wild, Wild, List({1})), isDeleted |-> FALSE]>>
    /\ subscriptions = {<<1, 1>>, <<2, 3>>}
    /\ last = NoResp
    /\ userDeleted = {}
    /\ requests = [r \in Requests |-> Idle]
    /\ accounts = NoAccounts
    /\ zone = "utc"
    /\ deletedPrograms = {}
    /\ cronExpr = Cron(Wild, Wild, Wild)
    /\ cronDate = 1
    /\ cronResult = NoResult

NextToggleRace ==
    \E r \in Requests :
        \/ CompleteFetch(r)
        \/ CompleteUpdate(r)

SpecToggleRace == InitToggleRace /\ [][NextToggleRace]_vars

\* populateUserTasks step by step while the same user unsubscribes from the
\* shared program
InitUnsubscribeRace ==
    /\ backend \in {"supabase_v1", "supabase"}
    /\ tasks \in {EmptyBag} \cup
                 {BagAdd(EmptyBag, Task(RaceUser, 2, d, c, FALSE, FALSE)) :
                      d \in {Today - 7, Today}, c \in BOOLEAN}
    /\ activities =
          <<[program |-> 1, cron |-> Cron(List({16}), Wild, Wild), isDeleted |-> FALSE],
            [program |-> 2, cron |-> Cron(Wild, Wild, List({1})), isDeleted |-> FALSE]>>
    /\ subscriptions = {<<1, 1>>, <<2, 3>>, <<1, 2>>}
    /\ last = NoResp
    /\ userDeleted = {}
    /\ requests = [r \in Requests |-> Idle]
    /\ accounts = NoAccounts
    /\ zone = "utc"
    /\ deletedPrograms = {}
    /\ cronExpr = Cron(Wild, Wild, Wild)
    /\ cronDate = 1
    /\ cronResult = NoResult

NextUnsubscribeRace ==
    \/ \E r \in Requests : StartPopulate(r)
    \/ \E r \in Requests : CheckExisting(r)
    \/ \E r \in Requests : WriteTask(r)
    \/ UnsubscribeProgram

SpecUnsubscribeRace == InitUnsubscribeRace /\ [][NextUnsubscribeRace]_vars

\* updateTask with every request body, by the creator of the shared program
\* and by a subscriber, on tasks of the shared program's activity
RecurrenceBodies ==
    [isSticky : Opt(BOOLEAN), isRecurring : Opt(BOOLEAN),
     recurringDays : Opt(DayLists \cup {{}}) \cup {Falsy},
     isEditingRecurrence : BOOLEAN]

UpdateTaskBy ==
    /\ \E u \in Users, t \in Named, b \in RecurrenceBodies :
          /\ updateTask(u, t, None, b.isSticky, b.isRecurring, b.recurringDays,
                        b.isEditingRecurrence)
          /\ last' = IF Found(u, t) /\ t.activity # NoActivity
                      THEN [ReqActivity("updateTask request", u, t.activity)
                                EXCEPT !.task = t]
                      ELSE Other
    /\ Frame

InitRecurrence ==
    /\ backend = "supabase"
    /\ tasks \in {BagAdd(BagAdd(EmptyBag,
                      Task(1, 2, d1, FALSE, FALSE, FALSE)),
                      Task(2, a, d2, FALSE, FALSE, FALSE)) :
                  d1 \in {Today, Today + 7}, d2 \in {Today, Today + 7},
                  a \in {NoActivity, 2}}
             \cup
             {BagAdd(BagAdd(EmptyBag,
                      Task(u, 2, Today, FALSE, FALSE, FALSE)),
                      Task(u, 2, Today + 7, FALSE, FALSE, FALSE)) : u \in Users}
    /\ activities =
          <<[program |-> 1, cron |-> Cron(List({16}), Wild, Wild), isDeleted |-> FALSE],
            [program |-> 2, cron |-> Cron(Wild, Wild, List({1})), isDeleted |-> FALSE]>>
    /\ subscriptions = {<<1, 1>>, <<2, 3>>, <<1, 2>>, <<2, 2>>}
    /\ last = NoResp
    /\ userDeleted = {}
    /\ requests = [r \in Requests |-> Idle]
    /\ accounts = NoAccounts
    /\ zone = "utc"
    /\ deletedPrograms = {}
    /\ cronExpr = Cron(Wild, Wild, Wild)
    /\ cronDate = 1
    /\ cronResult = NoResult

NextRecurrence ==
    \/ UpdateTaskBy
    \/ CompleteTask

SpecRecurrence == InitRecurrence /\ [][NextRecurrence]_vars

(***************************************************************************)
(* Properties                                                              *)
(***************************************************************************)

\* C1: in every state reached by populateUserTasks, the sticky
\* carry-forward, manageFutureTasks, unsubscribeProgram, the recurrence edit
\* of updateTask, completeTask and deleteTask, at most one task that is not
\* deleted exists for each (user, activity, dueDate) with an activity.
C1_OneLiveTaskPerKey ==
    \A t \in DOMAIN tasks :
        (t.activity # NoActivity /\ ~t.isDeleted) =>
            /\ tasks[t] = 1
            /\ \A t2 \in DOMAIN tasks :
                   (/\ t2 # t
                    /\ t2.user = t.user
                    /\ t2.activity = t.activity
                    /\ t2.dueDate = t.dueDate) => t2.isDeleted

\* C2: when populateUserTasks runs for a user and a day directly after a
\* populateUserTasks for the same user and day, the tasks are left as they
\* were and the count of the response is 0.
C2_PopulateTwice ==
    [][(last'.op = "populateUserTasks" /\ last'.repeat)
       => (tasks' = tasks /\ last'.count = 0)]_vars

\* C3: populateUserTasks leaves the completion flag of every existing task
\* as it is: the completed rows are the same rows before and after, and no
\* row that is not completed disappears.
C3_CompletionPreserved ==
    [][last'.op = "populateUserTasks" =>
          /\ \A t \in DOMAIN tasks \cup DOMAIN tasks' :
                 t.isCompleted => Copies(tasks', t) = Copies(tasks, t)
          /\ SumOver({t \in DOMAIN tasks' : ~t.isCompleted}, tasks')
                 >= SumOver({t \in DOMAIN tasks : ~t.isCompleted}, tasks)]_vars

\* C3 happens: populateUserTasks of the first Supabase version has just
\* rewritten the one task of the table, which the user had completed.
C3_Witness ==
    /\ backend = "supabase_v1"
    /\ last.op = "populateUserTasks"
    /\ last.count >= 1
    /\ BagSize(tasks) = 1
    /\ \E t \in DOMAIN tasks :
          /\ t.user = last.user
          /\ t.dueDate = last.day
          /\ t.activity # NoActivity
          /\ t.isCompleted
          /\ ~t.isDeleted

\* C4: when a generated task of (user, activity, day) is soft-deleted,
\* populateUserTasks for that user and day inserts no task for that key
\* (the rows of the key that were not carried forward stay the same in
\* number) and leaves every row of the key as it is, the deleted one deleted.
C4_DeletedNotRecreated ==
    [][last'.op = "populateUserTasks" =>
          \A d \in DOMAIN tasks :
              (/\ d.isDeleted
               /\ d.activity # NoActivity
               /\ d.user = last'.user
               /\ d.dueDate = last'.day)
              => LET sameKey(t) == /\ t.user = d.user
                                      /\ t.activity = d.activity
                                      /\ t.dueDate = d.dueDate
                 IN  /\ \A t \in DOMAIN tasks :
                            sameKey(t) => Copies(tasks', t) >= Copies(tasks, t)
                     /\ SumOver({t \in DOMAIN tasks' : sameKey(t) /\ ~t.isSticky}, tasks')
                          = SumOver({t \in DOMAIN tasks : sameKey(t) /\ ~t.isSticky}, tasks)]_vars

\* C4 happens: populateUserTasks has just run for a user and a day for which
\* an activity of a subscribed program is scheduled, and the only task of
\* that activity and day is a deleted one.
C4_Witness ==
    /\ backend = "supabase"
    /\ last.op = "populateUserTasks"
    /\ \E t \in DOMAIN tasks :
          /\ t.isDeleted
          /\ t.activity # NoActivity
          /\ t.user = last.user
          /\ t.dueDate = last.day
          /\ <<t.user, activities[t.activity].program>> \in subscriptions
          /\ isScheduled(activities[t.activity].cron, last.day)
          /\ tasks[t] = 1
          /\ \A t2 \in DOMAIN tasks :
                 (t2.activity = t.activity /\ t2.dueDate = t.dueDate) => t2 = t

\* C5: once deleteTask has removed a generated task of (user, activity,
\* day), no sequence of manageFutureTasks, unsubscribeProgram followed by
\* subscribeProgram, editActivity and populateUserTasks leaves a task of
\* that key that is not deleted.
C5_UserDeletedStaysDeleted ==
    \A k \in userDeleted :
        \A t \in DOMAIN tasks :
            (t.user = k[1] /\ t.activity = k[2] /\ t.dueDate = k[3]) => t.isDeleted

\* C6: with two populateUserTasks requests of one user and day in flight,
\* their checks and writes interleaved, no two tasks that are not deleted
\* share (user, activity, dueDate).
C6_NoDuplicateUnderRace ==
    \A t \in DOMAIN tasks :
        (t.activity # NoActivity /\ ~t.isDeleted) =>
            SumOver({t2 \in DOMAIN tasks : /\ t2.user = t.user
                                            /\ t2.activity = t.activity
                                            /\ t2.dueDate = t.dueDate
                                            /\ ~t2.isDeleted}, tasks) = 1

\* C11: for an expression that is missing, has the wrong number of parts or
\* has parts that are not numbers, the schedule test is false for every date.
C11_InvalidNeverFires ==
    (cronResult.test # "none" /\ cronExpr \in InvalidExprs) => ~cronResult.fires

\* C12: when populateUserTasks runs for a day that is not in the future,
\* the sticky rows after it are the sticky rows before it with the due date
\* of every incomplete one of the user due before the day replaced by the
\* day: each is moved, none stays at its old date, none is copied or lost.
C12_StickyMoved ==
    [][(last'.op = "populateUserTasks" /\ last'.day <= Today) =>
          LET carried(t) == /\ t.user = last'.user
                            /\ t.isSticky
                            /\ ~t.isCompleted
                            /\ t.dueDate < last'.day
              moved(t) == IF carried(t) THEN [t EXCEPT !.dueDate = last'.day] ELSE t
          IN  \A t \in DOMAIN tasks' \cup {moved(r) : r \in DOMAIN tasks} \cup DOMAIN tasks :
                  t.isSticky =>
                      Copies(tasks', t)
                          = SumOver({r \in DOMAIN tasks : moved(r) = t}, tasks)]_vars

\* C12 happens: populateUserTasks has just run for today and a sticky
\* incomplete task of an activity lies on today next to another task of the
\* same activity and day, where only the carry-forward can have put it.
C12_Witness ==
    /\ last.op = "populateUserTasks"
    /\ last.day = Today
    /\ \E t, t2 \in DOMAIN tasks :
          /\ t # t2
          /\ t.isSticky /\ ~t.isCompleted
          /\ t.user = last.user /\ t.dueDate = Today
          /\ t.activity # NoActivity
          /\ t2.user = t.user /\ t2.activity = t.activity /\ t2.dueDate = t.dueDate
          /\ ~t2.isSticky

\* C13: after an unsubscribe that succeeded, every task of that user tied to
\* one of the program's activities and due today or later is still a row of
\* the table, and that row is marked deleted
C13_UnsubscribeSoftDeletes ==
    [][last'.op \in {"unsubscribeProgram", "manageFutureTasks unsubscribing"} =>
          LET affected(t) == /\ t.user = last'.user
                             /\ t.activity # NoActivity
                             /\ activities[t.activity].program = last'.program
                             /\ t.dueDate >= Today
              marked(t) == [t EXCEPT !.isDeleted = TRUE]
          IN  \A d \in {marked(t) : t \in {r \in DOMAIN tasks : affected(r)}} :
                  Copies(tasks', d) =
                      SumOver({r \in DOMAIN tasks : affected(r) /\ marked(r) = d}, tasks)]_vars

C15_StaleFutureRemoved ==
    [][last'.op \in {"updateTask", "editActivity"} =>
          \A t \in DOMAIN tasks' :
              (t.activity = last'.activity /\ t.dueDate > Today) =>
                  isScheduled(activities'[t.activity].cron, t.dueDate)]_vars

\* C16: a recurrence edit leaves the tasks of the activity due today or
\* earlier as they were (is_sticky aside, which the request sets on the task
\* it names)
C16_PastAndTodayKept ==
    [][last'.op \in {"updateTask", "editActivity"} =>
          LET old(B) == {t \in DOMAIN B : t.activity = last'.activity /\ t.dueDate <= Today}
              same(r, t) == [r EXCEPT !.isSticky = FALSE] = [t EXCEPT !.isSticky = FALSE]
          IN  \A t \in old(tasks) \cup old(tasks') :
                  SumOver({r \in old(tasks') : same(r, t)}, tasks') =
                      SumOver({r \in old(tasks) : same(r, t)}, tasks)]_vars

\* C17: after a recurrence edit, every task of the activity that was not
\* deleted, is due after today and falls on a date the new rule fires on is
\* still in the table and not deleted
C17_MatchingFutureKept ==
    [][last'.op \in {"updateTask", "editActivity"} =>
          LET live(B) == {t \in DOMAIN B : /\ t.activity = last'.activity
                                           /\ t.dueDate > Today
                                           /\ ~t.isDeleted
                                           /\ isScheduled(activities'[t.activity].cron,
                                                          t.dueDate)}
              same(r, t) == [r EXCEPT !.isSticky = FALSE] = [t EXCEPT !.isSticky = FALSE]
          IN  \A t \in live(tasks) :
                  SumOver({r \in live(tasks') : same(r, t)}, tasks') >=
                      SumOver({r \in live(tasks) : same(r, t)}, tasks)]_vars

\* C18: after a subscription (subscribeProgram, or manageFutureTasks called
\* with isSubscribing), the subscriber has a task that is not deleted for
\* every activity of the program and every day from today to today + 29 the
\* activity fires on, and the request has added no task for any other pair
C18_SubscribeBackfills ==
    [][last'.op \in {"subscribeProgram", "manageFutureTasks subscribing"} =>
          LET fires(a, d) == IF backend = "mongo"
                             THEN checkDate(activities[a].cron, d)
                             ELSE isScheduled(activities[a].cron, d)
              due(a, d) == /\ activities[a].program = last'.program
                           /\ d \in Today..(Today + DAYS_TO_POPULATE - 1)
                           /\ fires(a, d)
          IN  /\ \A a \in Activities, d \in Today..(Today + DAYS_TO_POPULATE - 1) :
                     due(a, d) =>
                         \E t \in DOMAIN tasks' :
                             /\ t.user = last'.user
                             /\ t.activity = a
                             /\ t.dueDate = d
                             /\ ~t.isDeleted
              /\ \A t \in DOMAIN tasks' :
                     Copies(tasks', t) > Copies(tasks, t) =>
                         /\ t.user = last'.user
                         /\ t.activity # NoActivity
                         /\ due(t.activity, t.dueDate)]_vars

\* C19: after a deleteActivity that succeeded, the activity is still there
\* and marked deleted, every task derived from it and due today or later is
\* marked deleted, and its tasks due before today are as they were
C19_DeleteActivityMarks ==
    [][last'.op = "deleteActivity" =>
          LET a == last'.activity
              past(B) == {t \in DOMAIN B : t.activity = a /\ t.dueDate < Today}
          IN  /\ activities'[a] = [activities[a] EXCEPT !.isDeleted = TRUE]
              /\ \A t \in DOMAIN tasks' :
                     (t.activity = a /\ t.dueDate >= Today) => t.isDeleted
              /\ \A t \in past(tasks) \cup past(tasks') :
                     Copies(tasks', t) = Copies(tasks, t)]_vars

\* C20: populateUserTasks adds a task for an activity only if the activity
\* is not marked deleted and belongs to a program the user is subscribed to
\* or to the user's personal program
C20_PopulateOnlyLiveSubscribed ==
    [][last'.op = "populateUserTasks" =>
          LET u == last'.user
              made(B, a) == {t \in DOMAIN B : /\ t.user = u
                                              /\ t.activity = a
                                              /\ t.dueDate = last'.day
                                              /\ ~t.isSticky}
          IN  \A a \in Activities :
                  SumOver(made(tasks', a), tasks') > SumOver(made(tasks, a), tasks) =>
                      /\ ~activities[a].isDeleted
                      /\ \/ <<u, activities[a].program>> \in subscriptions
                         \/ activities[a].program = PersonalProgram(u)]_vars

\* C21: deleteTask on a task of the caller removes the row when the task
\* has no activity and keeps the row, marked deleted, when it has one;
\* deleteTask on a task of another user, or on no task, changes nothing
C21_DeleteTaskEffect ==
    [][last'.op = "deleteTask" =>
          LET t == last'.task
              owned == t \in DOMAIN tasks /\ t.user = last'.user
              marked == [t EXCEPT !.isDeleted = TRUE]
          IN  /\ (owned /\ t.activity = NoActivity) =>
                     /\ Copies(tasks', t) = Copies(tasks, t) - 1
                     /\ BagSize(tasks') = BagSize(tasks) - 1
                     /\ \A r \in DOMAIN tasks \cup DOMAIN tasks' :
                            r # t => Copies(tasks', r) = Copies(tasks, r)
              /\ (owned /\ t.activity # NoActivity) =>
                     /\ BagSize(tasks') = BagSize(tasks)
                     /\ marked \in DOMAIN tasks'
                     /\ \A r \in DOMAIN tasks \cup DOMAIN tasks' :
                            r \notin {t, marked} => Copies(tasks', r) = Copies(tasks, r)
                     /\ t # marked =>
                            /\ Copies(tasks', t) = Copies(tasks, t) - 1
                            /\ Copies(tasks', marked) = Copies(tasks, marked) + 1
              /\ ~owned => tasks' = tasks]_vars

\* a generated task was deleted by its owner and is in the table, marked,
\* next to a task of the other user
C21_Witness ==
    /\ last.op = "deleteTask"
    /\ last.task.user = last.user
    /\ last.task.activity # NoActivity
    /\ ~last.task.isDeleted
    /\ [last.task EXCEPT !.isDeleted = TRUE] \in DOMAIN tasks
    /\ \E r \in DOMAIN tasks : r.user # last.user

\* C22: completeTask on a task of the caller negates the completion flag
\* and leaves every other field and every other task as it was; a second
\* call on the same task gives the task its original value back
C22_CompleteToggles ==
    [][last'.op = "completeTask" =>
          LET t == last'.task
              owned == t \in DOMAIN tasks /\ t.user = last'.user
          IN  IF ~owned THEN tasks' = tasks
              ELSE LET toggled == [t EXCEPT !.isCompleted = ~t.isCompleted]
                   IN  /\ Copies(tasks', toggled) = Copies(tasks, toggled) + 1
                       /\ Copies(tasks', t) = Copies(tasks, t) - 1
                       /\ \A r \in DOMAIN tasks \cup DOMAIN tasks' :
                              r \notin {t, toggled} => Copies(tasks', r) = Copies(tasks, r)
                       /\ last'.repeat =>
                              Copies(tasks', last.task) = Copies(tasks, last.task) + 1]_vars

\* a task of the caller was toggled twice and is in the table with its
\* original value
C22_Witness ==
    /\ last.op = "completeTask"
    /\ last.repeat
    /\ last.task.user = last.user
    /\ [last.task EXCEPT !.isCompleted = ~last.task.isCompleted] \in DOMAIN tasks

C24_OnePersonalProgram ==
    \A u \in Users :
        accounts.reg[u].pc = "done" =>
            Cardinality({i \in 1..Len(accounts.rows) :
                            accounts.rows[i].creator = u /\ accounts.rows[i].isPersonal}) = 1

\* C25: when the requests on the tasks of one activity fail during
\* populateUserTasks or during the backfill of a subscription, the request
\* is still answered with success and every other occurrence it had to
\* process has its task
C25_FailureSkipped ==
    [][last'.op \in {"populateUserTasks failing", "manageFutureTasks failing"} =>
          LET u == last'.user
              fires(a, d) == IF backend = "mongo"
                             THEN checkDate(activities[a].cron, d)
                             ELSE isScheduled(activities[a].cron, d)
              days == IF last'.op = "populateUserTasks failing"
                      THEN {d \in {last'.day} : backend = "mongo" => d >= Today}
                      ELSE Today..(Today + DAYS_TO_POPULATE - 1)
              due(a, d) == /\ a # last'.activity
                           /\ d \in days
                           /\ fires(a, d)
                           /\ IF last'.op = "populateUserTasks failing"
                              THEN <<u, activities[a].program>> \in subscriptions
                              ELSE activities[a].program = last'.program
          IN  /\ last'.status = 200
              /\ \A a \in Activities, d \in days :
                     due(a, d) =>
                         \E t \in DOMAIN tasks' :
                             t.user = u /\ t.activity = a /\ t.dueDate = d]_vars

\* C26: populateUserTasks changes the dueDate only of tasks of the
\* requesting user that are sticky, not completed, not deleted and due
\* before the target day: every other row is still in the table afterwards
C26_CarryForwardFrame ==
    [][last'.op = "populateUserTasks" =>
          LET carried(t) == /\ t.user = last'.user
                            /\ t.isSticky
                            /\ ~t.isCompleted
                            /\ ~t.isDeleted
                            /\ t.dueDate < last'.day
          IN  \A t \in DOMAIN tasks :
                  ~carried(t) => Copies(tasks', t) >= Copies(tasks, t)]_vars

\* C27: populateUserTasks for a day after today carries nothing forward:
\* every task row that existed before the request is still there, with the
\* same dueDate, after it
C27_FutureDayNoCarry ==
    [][last'.op = "populateUserTasks" /\ last'.day > Today =>
          \A t \in DOMAIN tasks : Copies(tasks', t) >= Copies(tasks, t)]_vars

\* C28: when two completeTask requests on the same task have both answered,
\* however their selects and updates interleaved, the task's isCompleted is
\* what it was before the first of them
C28_NoLostToggle ==
    \A r, q \in Requests :
        /\ r # q
        /\ requests[r].pc = "updated"
        /\ requests[q].pc = "updated"
        /\ requests[r].task = requests[q].task
        => requests[r].task.isCompleted = requests[r].orig

\* C29: once unsubscribeProgram has answered 200 and no populateUserTasks of
\* the same user is in flight, whatever the interleaving was, the user has
\* no task that is not deleted, due today or later, of an activity of the
\* program
C29_NoTaskAfterUnsubscribe ==
    /\ last.op = "unsubscribeProgram"
    /\ \A r \in Requests : requests[r].pc \in {"idle", "done"}
    => \A t \in DOMAIN tasks :
          ~ /\ t.user = last.user
            /\ ~t.isDeleted
            /\ t.dueDate >= Today
            /\ t.activity # NoActivity
            /\ activities[t.activity].program = last.program

\* C30: an updateTask request on a task of an activity of a program that is
\* not personal, whatever isRecurring, recurringDays and isEditingRecurrence
\* it carries, leaves the activity's cron as it was and removes no task of
\* the activity that is due after today
C30_SharedRecurrenceKept ==
    [][/\ last'.op = "updateTask request"
       /\ ~programs[last'.program].isPersonal
       => LET future(B) == BagSize(BagFilter(B,
                               {t \in DOMAIN B : /\ t.activity = last'.activity
                                                 /\ t.dueDate > Today}))
          IN  /\ activities'[last'.activity].cron = activities[last'.activity].cron
              /\ future(tasks') >= future(tasks)]_vars

\* C7: for a rule with day-of-month and day-of-week both given and a month
\* that matches, the schedule test is true exactly when the day of the month
\* is in the day-of-month field or the weekday is in the day-of-week field.
C7_DayFieldsOr ==
    (/\ cronResult.test # "none"
     /\ cronExpr.dom # Wild
     /\ cronExpr.dow # Wild
     /\ (cronExpr.mon = Wild \/ Month(cronDate) \in cronExpr.mon.list))
    => (cronResult.fires <=>
            \/ DayOfMonth(cronDate) \in cronExpr.dom.list
            \/ DayOfWeek(cronDate) \in cronExpr.dow.list)

\* C8: when the month field of a rule is given and does not contain the
\* month of the date, the schedule test is false.
C8_MonthGate ==
    (/\ cronResult.test # "none"
     /\ cronExpr.mon # Wild
     /\ Month(cronDate) \notin cronExpr.mon.list)
    => ~cronResult.fires

\* C9: for a rule with exactly one of day-of-month and day-of-week a
\* wildcard and a month that matches, the schedule test is true exactly when
\* the field that is given contains the date's day of the month, or weekday.
C9_OneDayFieldGiven ==
    (/\ cronResult.test # "none"
     /\ (cronExpr.dom = Wild) # (cronExpr.dow = Wild)
     /\ (cronExpr.mon = Wild \/ Month(cronDate) \in cronExpr.mon.list))
    => (cronResult.fires <=>
            IF cronExpr.dom = Wild
            THEN DayOfWeek(cronDate) \in cronExpr.dow.list
            ELSE DayOfMonth(cronDate) \in cronExpr.dom.list)

\* C10: for a rule with day-of-month and day-of-week both wildcards, the
\* schedule test is true for every date whose month matches the month field.
C10_BothWildcards ==
    (/\ cronResult.test # "none"
     /\ cronExpr.dom = Wild
     /\ cronExpr.dow = Wild
     /\ (cronExpr.mon = Wild \/ Month(cronDate) \in cronExpr.mon.list))
    => cronResult.fires

\* C10 happens: checkDate has answered for a rule "m h * 2 *" and a date of
\* February.
C10_Witness ==
    /\ cronResult.test = "checkDate"
    /\ cronExpr.dom = Wild
    /\ cronExpr.dow = Wild
    /\ cronExpr.mon = List({2})
    /\ Month(cronDate) = 2

====
